---------------------------- MODULE Spec2Model ----------------------------
(***************************************************************************)
(* FIR filter design and analysis (src/filter/src/firdes.c).               *)
(*                                                                         *)
(* Every function of the file is a stateless routine: a call takes its     *)
(* arguments, possibly reads or writes a caller-owned buffer, and either   *)
(* returns, or ends the process through exit(0).  A behaviour of the model *)
(* is one call: Init draws the arguments, the action of the function runs  *)
(* its whole body.                                                         *)
(*                                                                         *)
(* float values are modelled as exact rationals [n, d] in lowest terms     *)
(* with d > 0; d = 0 encodes the non-finite results of IEEE-754 division   *)
(* (0/0 = NaN, x/0 = +-Inf).  Rounding error of single precision is not    *)
(* modelled.  Integer values stay far below 2^31 in every bounded run,     *)
(* except the lag INT_MIN, which is modelled with its real value.          *)
(***************************************************************************)
EXTENDS Integers, Sequences, FiniteSets

VARIABLES
    pc,      \* "call" | "returned" | "exited" (exit(0)) | "aborted" (overflow trap)
    op,      \* name of the function being called
    args,    \* scalar arguments of the call
    h,       \* caller-owned coefficient buffer, indexed from 0
    ret,     \* value returned by the function
    mse,     \* *_mse of liquid_filter_isi
    max,     \* *_max of liquid_filter_isi
    outw,    \* which of the outputs {"mse", "max"} have been stored to
    lags,    \* lags passed to liquid_filter_autocorr during the call
    reads,   \* indices of h read during the call
    stdout   \* diagnostic printed by the call ("" when none)

vars == <<pc, op, args, h, ret, mse, max, outw, lags, reads, stdout>>

---------------------------------------------------------------------------
(* Bounds of the model.                                                    *)

BDen == 20        \* bandwidths are multiples of 1/BDen
MaxBNum == 12     \* largest bandwidth numerator (above 0.5 on purpose)
SDen == 2         \* sidelobe levels are multiples of 1/SDen dB
MaxSlsl == 61     \* largest sidelobe level, dB

---------------------------------------------------------------------------
(* float arithmetic on exact rationals.                                    *)

Abs(x) == IF x < 0 THEN -x ELSE x

Sign(x) == IF x < 0 THEN -1 ELSE IF x > 0 THEN 1 ELSE 0

RECURSIVE GCD(_, _)
GCD(a, b) == IF b = 0 THEN a ELSE GCD(b, a % b)

\* the float n/d, d # 0, in lowest terms with a positive denominator
R(n, d) ==
    LET g == GCD(Abs(n), Abs(d))
    IN  [n |-> Sign(d) * (n \div g), d |-> Abs(d) \div g]

NaN == [n |-> 0, d |-> 0]
Inf(s) == [n |-> s, d |-> 0]
IsNaN(x) == x.d = 0 /\ x.n = 0
IsFinite(x) == x.d > 0
FromInt(i) == [n |-> i, d |-> 1]

FAdd(x, y) ==
    IF IsNaN(x) \/ IsNaN(y) THEN NaN
    ELSE IF x.d = 0 /\ y.d = 0 THEN (IF x.n = y.n THEN x ELSE NaN)
    ELSE IF x.d = 0 THEN x
    ELSE IF y.d = 0 THEN y
    ELSE R(x.n * y.d + y.n * x.d, x.d * y.d)

FNeg(x) == [n |-> -x.n, d |-> x.d]

FSub(x, y) == FAdd(x, FNeg(y))

FMul(x, y) ==
    IF IsNaN(x) \/ IsNaN(y) THEN NaN
    ELSE IF x.d = 0 \/ y.d = 0
         THEN (IF x.n = 0 \/ y.n = 0 THEN NaN ELSE Inf(Sign(x.n) * Sign(y.n)))
    ELSE R(x.n * y.n, x.d * y.d)

FDiv(x, y) ==
    IF IsNaN(x) \/ IsNaN(y) THEN NaN
    ELSE IF x.d = 0 THEN (IF y.d = 0 THEN NaN
                          ELSE Inf(x.n * (IF y.n < 0 THEN -1 ELSE 1)))
    ELSE IF y.d = 0 THEN FromInt(0)
    ELSE IF y.n = 0 THEN (IF x.n = 0 THEN NaN ELSE Inf(Sign(x.n)))
    ELSE R(x.n * y.d, x.d * y.n)

\* fabsf
FAbs(x) == [n |-> Abs(x.n), d |-> x.d]

\* x < y; every comparison with a NaN is false
FLt(x, y) ==
    IF IsNaN(x) \/ IsNaN(y) THEN FALSE
    ELSE IF x.d = 0 /\ y.d = 0 THEN x.n < y.n
    ELSE IF x.d = 0 THEN x.n < 0
    ELSE IF y.d = 0 THEN y.n > 0
    ELSE x.n * y.d < y.n * x.d

FGt(x, y) == FLt(y, x)

FLe(x, y) ==
    IF IsNaN(x) \/ IsNaN(y) THEN FALSE ELSE ~FLt(y, x)

\* lroundf: nearest integer, halfway cases away from zero (finite x)
LRoundFTrunc(x) == IF x.n >= 0 THEN x.n \div x.d ELSE -((-x.n) \div x.d)

LRoundF(x) ==
    IF x.n >= 0 THEN (2 * x.n + x.d) \div (2 * x.d)
    ELSE -((2 * (-x.n) + x.d) \div (2 * x.d))

---------------------------------------------------------------------------
(* estimate_req_filter_len                                                 *)

BValues == {R(n, BDen) : n \in (-1)..MaxBNum} \cup {R(1, 10), R(1, 2)}

SlslValues == {R(n, SDen) : n \in (-SDen)..(SDen * MaxSlsl)} \cup {R(60, 1), R(8, 1)}

\* (_slsl-8)/(14*_b)
ReqLenQuotientNoOffset(b, slsl) == FDiv(slsl, FMul(FromInt(14), b))

ReqLenQuotient(b, slsl) ==
    FDiv(FSub(slsl, FromInt(8)), FMul(FromInt(14), b))

InitLen ==
    /\ pc = "call"
    /\ op = "estimate_req_filter_len"
    /\ \E b \in BValues, slsl \in SlslValues : args = [b |-> b, slsl |-> slsl]
    /\ h = <<>>
    /\ ret = 0
    /\ mse = FromInt(0)
    /\ max = FromInt(0)
    /\ outw = {}
    /\ lags = {}
    /\ reads = {}
    /\ stdout = ""

estimate_req_filter_len ==
    /\ pc = "call"
    /\ op = "estimate_req_filter_len"
    /\ IF FGt(args.b, R(1, 2)) \/ FLe(args.b, FromInt(0))
       THEN /\ stdout' = "error: estimate_req_filter_len(), invalid bandwidth"
            /\ pc' = "exited"
            /\ ret' = ret
       ELSE IF FLe(args.slsl, FromInt(0))
       THEN /\ stdout' = "error: estimate_req_filter_len(), invalid sidelobe level"
            /\ pc' = "exited"
            /\ ret' = ret
       ELSE /\ stdout' = stdout
            /\ pc' = "returned"
            /\ ret' = IF FLt(args.slsl, FromInt(8))
                      THEN 2
                      ELSE LRoundF(ReqLenQuotient(args.b, args.slsl))
    /\ UNCHANGED <<op, args, h, mse, max, outw, lags, reads>>

NextLen == estimate_req_filter_len

SpecLen == InitLen /\ [][NextLen]_vars

---------------------------------------------------------------------------
(* kaiser_beta_slsl and fir_kaiser_window                                  *)

MaxN == 4         \* largest filter length requested of fir_kaiser_window
FcDen == 4        \* cutoff frequencies are multiples of 1/FcDen
MuDen == 4        \* fractional offsets are multiples of 1/MuDen
HSlack == 1       \* entries the caller's buffer holds beyond the _n requested

FcValues == {R(n, FcDen) : n \in (-1)..(FcDen + 1)}

MuValues == {R(n, MuDen) : n \in (-(MuDen \div 2) - 1)..((MuDen \div 2) + 1)}

\* one level in each region of kaiser_beta_slsl, of either sign, and the breakpoints
KaiserSlslValues == {FromInt(n) : n \in {-60, -30, 0, 10, 21, 30, 50, 60}}

\* kaiser() and sincf() are defined outside this file; kaiser() is taken to
\* return for the arguments fir_kaiser_window passes it.
\*
\* The Kaiser beta of a sidelobe level.  powf is not computed: beta is kept
\* as the branch taken and the argument of its formula,
\*   "hi"  : 0.1102*arg,  "mid" : 0.5842*arg^0.4 + 0.07886*arg,  "lo" : 0.
kaiser_beta_slsl(slsl) ==
    LET a == FAbs(slsl)
    IN  IF FGt(a, FromInt(50)) THEN [branch |-> "hi", arg |-> FSub(a, R(87, 10))]
        ELSE IF FGt(a, FromInt(21)) THEN [branch |-> "mid", arg |-> FSub(a, FromInt(21))]
        ELSE [branch |-> "lo", arg |-> FromInt(0)]

\* an entry of the buffer the call has not stored to
Unwritten == [set |-> FALSE, sinc |-> NaN, win |-> <<>>]

\* the validation of fir_kaiser_window: the diagnostic printed, "" when valid
KaiserInvalidNoLengthCheck(n, fc, mu) ==
    IF FLt(mu, R(-1, 2)) \/ FGt(mu, R(1, 2))
    THEN "error: fir_kaiser_window(), _mu out of range [-0.5,0.5]"
    ELSE IF FLt(fc, FromInt(0)) \/ FGt(fc, FromInt(1))
    THEN "error: fir_kaiser_window(), cutoff frequency out of range [0.0,1.0]"
    ELSE ""

KaiserInvalid(n, fc, mu) ==
    IF FLt(mu, R(-1, 2)) \/ FGt(mu, R(1, 2))
    THEN "error: fir_kaiser_window(), _mu out of range [-0.5,0.5]"
    ELSE IF FLt(fc, FromInt(0)) \/ FGt(fc, FromInt(1))
    THEN "error: fir_kaiser_window(), cutoff frequency out of range [0.0,1.0]"
    ELSE IF n = 0
    THEN "error: fir_kaiser_window(), filter length must be greater than zero"
    ELSE ""

\* _h[i] = sincf(_fc*t) * kaiser(i,_n,beta,_mu), t = i - (_n-1)/2 + _mu.
\* sincf and kaiser are kept as their arguments.
KaiserTap(i, n, fc, beta, mu) ==
    LET t == FAdd(FSub(FromInt(i), R(n - 1, 2)), mu)
    IN  [set |-> TRUE, sinc |-> FMul(fc, t), win |-> <<i, n, beta, mu>>]

\* for (i=0; i<_n; i++) _h[i] = h1*h2;
RECURSIVE KaiserLoop(_, _, _, _, _, _)
KaiserLoop(i, n, fc, beta, mu, buf) ==
    IF i < n
    THEN KaiserLoop(i + 1, n, fc, beta, mu,
                    [buf EXCEPT ![i] = KaiserTap(i, n, fc, beta, mu)])
    ELSE buf

InitKaiser ==
    /\ pc = "call"
    /\ op = "fir_kaiser_window"
    /\ \E n \in 0..MaxN, fc \in FcValues, slsl \in KaiserSlslValues, mu \in MuValues :
          /\ args = [n |-> n, fc |-> fc, slsl |-> slsl, mu |-> mu]
          /\ h = [i \in 0..(n + HSlack - 1) |-> Unwritten]
    /\ ret = 0
    /\ mse = FromInt(0)
    /\ max = FromInt(0)
    /\ outw = {}
    /\ lags = {}
    /\ reads = {}
    /\ stdout = ""

fir_kaiser_window ==
    /\ pc = "call"
    /\ op = "fir_kaiser_window"
    /\ LET msg == KaiserInvalid(args.n, args.fc, args.mu)
       IN  IF msg # ""
           THEN /\ stdout' = msg
                /\ pc' = "exited"
                /\ h' = h
           ELSE /\ stdout' = stdout
                /\ pc' = "returned"
                /\ h' = KaiserLoop(0, args.n, args.fc, kaiser_beta_slsl(args.slsl),
                                   args.mu, h)
    /\ UNCHANGED <<op, args, ret, mse, max, outw, lags, reads>>

NextKaiser == fir_kaiser_window

SpecKaiser == InitKaiser /\ [][NextKaiser]_vars

---------------------------------------------------------------------------
(* liquid_filter_autocorr                                                  *)

MaxLen == 5       \* longest coefficient vector given to liquid_filter_autocorr
MaxLag == 6       \* largest ordinary |lag| (beyond MaxLen on purpose)
CoefMax == 1      \* coefficients are the integers -CoefMax..CoefMax

IntMax == 2147483647
IntMin == -IntMax - 1

Coef == (-CoefMax)..CoefMax

LagValues == ((-MaxLag)..MaxLag) \cup {IntMin, IntMin + 1, IntMax}

\* abs(INT_MIN) overflows int: undefined behaviour.  A build either wraps
\* (the result is INT_MIN again) or traps on the overflow (-ftrapv, a
\* sanitizer), which ends the process.
AbsOverflowOutcomes == {"wrap", "trap"}

\* _lag >= _h_len compares an int with an unsigned int: _lag is converted to
\* unsigned, so a negative _lag becomes a value of at least 2^31, above
\* every _h_len of the model.
LagOutside(lag, h_len) == IF lag < 0 THEN TRUE ELSE lag >= h_len

\* for (i=_lag; i<_h_len; i++) rxx += _h[i] * _h[i-_lag];
RECURSIVE AutocorrLoop(_, _, _, _, _)
AutocorrLoop(hh, h_len, lag, i, rxx) ==
    IF i < h_len
    THEN AutocorrLoop(hh, h_len, lag, i + 1, rxx + hh[i] * hh[i - lag])
    ELSE rxx

\* the body of liquid_filter_autocorr after _lag = abs(_lag)
AutocorrBody(hh, h_len, lag) ==
    IF LagOutside(lag, h_len) THEN 0 ELSE AutocorrLoop(hh, h_len, lag, lag, 0)

\* liquid_filter_autocorr for a lag other than INT_MIN: _lag = abs(_lag),
\* then the body
AutocorrCall(hh, h_len, lag) == AutocorrBody(hh, h_len, Abs(lag))

\* the indices of _h the body reads
AutocorrReads(h_len, lag) ==
    IF LagOutside(lag, h_len) THEN {}
    ELSE UNION {{i, i - lag} : i \in lag..(h_len - 1)}

InitAutocorr ==
    /\ pc = "call"
    /\ op = "liquid_filter_autocorr"
    /\ \E len \in 0..MaxLen, lag \in LagValues :
          /\ args = [h_len |-> len, lag |-> lag]
          /\ h \in [0..(len - 1) -> Coef]
    /\ ret = 0
    /\ mse = FromInt(0)
    /\ max = FromInt(0)
    /\ outw = {}
    /\ lags = {}
    /\ reads = {}
    /\ stdout = ""

liquid_filter_autocorr ==
    /\ pc = "call"
    /\ op = "liquid_filter_autocorr"
    /\ \E ub \in AbsOverflowOutcomes :
          IF args.lag = IntMin /\ ub = "trap"
          THEN /\ pc' = "aborted"
               /\ UNCHANGED <<ret, lags, reads>>
          ELSE LET lag == IF args.lag = IntMin THEN IntMin ELSE Abs(args.lag)
               IN  /\ pc' = "returned"
                   /\ ret' = AutocorrBody(h, args.h_len, lag)
                   /\ lags' = {lag}
                   /\ reads' = AutocorrReads(args.h_len, lag)
    /\ UNCHANGED <<op, args, h, mse, max, outw, stdout>>

NextAutocorr == liquid_filter_autocorr

SpecAutocorr == InitAutocorr /\ [][NextAutocorr]_vars

---------------------------------------------------------------------------
(* liquid_filter_isi                                                       *)

MaxK == 3         \* largest over-sampling rate
MaxM == 2         \* largest filter delay
MaxIsiLen == 9    \* longest coefficient vector given to liquid_filter_isi

\* Coefficients of the vectors given to liquid_filter_isi.  The set is kept
\* apart from Coef: vectors here are up to MaxIsiLen long and every one of
\* them is enumerated.
IsiCoef == {-1, 0, 1}

\* unsigned int h_len = 2*_k*_m+1;
IsiLen(k, m) == 2 * k * m + 1

\* the lag of the i-th symbol: i*_k
IsiLagNext(i, k) == (i + 1) * k

IsiLag(i, k) == i * k

\* isi_mse / (float)(2*_m)
IsiMeanOverM(isi_mse, m) == FDiv(isi_mse, FromInt(m))

IsiMean(isi_mse, m) == FDiv(isi_mse, FromInt(2 * m))

\* for (i=1; i<=2*_m; i++) { e = fabsf(r(i*_k)/rxx0); isi_mse += e*e;
\*                           if (i==1 || e > isi_max) isi_max = e; }
RECURSIVE IsiLoop(_, _, _, _, _, _, _)
IsiLoop(hh, k, m, rxx0, i, isi_mse, isi_max) ==
    IF i <= 2 * m
    THEN LET h_len == IsiLen(k, m)
             e == FAbs(FDiv(FromInt(AutocorrCall(hh, h_len, IsiLag(i, k))),
                            FromInt(rxx0)))
         IN  IsiLoop(hh, k, m, rxx0, i + 1,
                     FAdd(isi_mse, FMul(e, e)),
                     IF i = 1 \/ FGt(e, isi_max) THEN e ELSE isi_max)
    ELSE [mse |-> isi_mse, max |-> isi_max]

InitIsi ==
    /\ pc = "call"
    /\ op = "liquid_filter_isi"
    /\ \E k \in 0..MaxK, m \in 0..MaxM :
          /\ IsiLen(k, m) <= MaxIsiLen
          /\ args = [k |-> k, m |-> m]
          /\ h \in [0..(IsiLen(k, m) - 1) -> IsiCoef]
    /\ ret = 0
    /\ mse = FromInt(0)
    /\ max = FromInt(0)
    /\ outw = {}
    /\ lags = {}
    /\ reads = {}
    /\ stdout = ""

liquid_filter_isi ==
    /\ pc = "call"
    /\ op = "liquid_filter_isi"
    /\ LET h_len == IsiLen(args.k, args.m)
           rxx0 == AutocorrCall(h, h_len, 0)
           acc == IsiLoop(h, args.k, args.m, rxx0, 1, FromInt(0), FromInt(0))
           called == {0} \cup {Abs(IsiLag(i, args.k)) : i \in 1..(2 * args.m)}
       IN  /\ mse' = IsiMean(acc.mse, args.m)
           /\ max' = acc.max
           /\ outw' = {"mse", "max"}
           /\ lags' = called
           /\ reads' = UNION {AutocorrReads(h_len, l) : l \in called}
           /\ pc' = "returned"
    /\ UNCHANGED <<op, args, h, ret, stdout>>

NextIsi == liquid_filter_isi

SpecIsi == InitIsi /\ [][NextIsi]_vars

---------------------------------------------------------------------------
(* The whole file: one call of any of its functions.                       *)

Init == InitLen \/ InitKaiser \/ InitAutocorr \/ InitIsi

Next ==
    \/ estimate_req_filter_len
    \/ fir_kaiser_window
    \/ liquid_filter_autocorr
    \/ liquid_filter_isi

Spec == Init /\ [][Next]_vars

---------------------------------------------------------------------------
(* Claims about estimate_req_filter_len (checked under SpecLen).           *)

\* b lies in (0, 0.5] and slsl > 0, in integer arithmetic
LenArgsValid == args.b.n > 0 /\ 2 * args.b.n <= args.b.d /\ args.slsl.n > 0

C2_Returns37 ==
    (op = "estimate_req_filter_len" /\ pc # "call"
       /\ args.b = R(1, 10) /\ args.slsl = R(60, 1)) =>
        (pc = "returned" /\ ret = 37)

\* the call with b = 0.1, slsl = 60 has returned
C2_Witness ==
    /\ pc = "returned"
    /\ args = [b |-> R(1, 10), slsl |-> R(60, 1)]
    /\ ret # 0

\* C2 (as stated): estimate_req_filter_len(0.1, 60.0) returns 38.
C2_Returns38 ==
    (op = "estimate_req_filter_len" /\ pc # "call"
       /\ args.b = R(1, 10) /\ args.slsl = R(60, 1)) =>
        (pc = "returned" /\ ret = 38)

\* C3: a call with b outside (0, 0.5] or slsl <= 0 comes back to its caller
\* with an InvalidParameter failure, and the process lives on.
C3_RecoverableError ==
    (op = "estimate_req_filter_len" /\ pc # "call" /\ ~LenArgsValid) =>
        pc = "InvalidParameter"

\* C9: for every valid input the length returned is at least 2.
C9_AtLeastTwoTaps ==
    (op = "estimate_req_filter_len" /\ pc # "call" /\ LenArgsValid) =>
        (pc = "returned" /\ ret >= 2)

---------------------------------------------------------------------------
(* Claims about fir_kaiser_window (checked under SpecKaiser).              *)

\* the entries of the buffer the call has stored to
Written == {i \in DOMAIN h : h[i].set}

\* C5: the call fails exactly when N = 0, fc is outside [0,1] or mu is
\* outside [-0.5,0.5], whatever slsl is; a failed call stores to no entry of
\* h, a successful one to exactly the entries 0..N-1.
C5_WritesExactlyN ==
    (op = "fir_kaiser_window" /\ pc # "call") =>
        LET valid == /\ args.n > 0
                     /\ 0 <= args.fc.n /\ args.fc.n <= args.fc.d
                     /\ -args.mu.d <= 2 * args.mu.n /\ 2 * args.mu.n <= args.mu.d
        IN  IF valid
            THEN pc = "returned" /\ Written = 0..(args.n - 1)
            ELSE pc = "exited" /\ Written = {}

\* a design of three taps or more with a negative sidelobe level and a
\* nonzero offset has returned, the entry past the last tap untouched
C5_Witness ==
    /\ op = "fir_kaiser_window"
    /\ pc = "returned"
    /\ args.n >= 3
    /\ args.slsl.n < 0
    /\ args.mu.n # 0
    /\ h[0].set /\ h[args.n - 1].set /\ ~h[args.n].set

---------------------------------------------------------------------------
(* Claims about liquid_filter_autocorr (checked under SpecAutocorr).       *)

\* sum of hh[i] * hh[i - lag] over the indices i of S
RECURSIVE SumProducts(_, _, _)
SumProducts(hh, S, lag) ==
    IF S = {} THEN 0
    ELSE LET i == CHOOSE x \in S : TRUE
         IN  hh[i] * hh[i - lag] + SumProducts(hh, S \ {i}, lag)

\* r(lag) = sum over i = |lag|..L-1 of h[i] * h[i - |lag|]; |INT_MIN| = 2^31
\* is above every length, so the sum is empty there
RefAutocorr(hh, L, lag) ==
    IF lag = IntMin THEN 0
    ELSE SumProducts(hh, Abs(lag)..(L - 1), Abs(lag))

\* C6: for every int lag, the most negative one included, the call returns
\* and its value is the value for the mirrored lag -lag.  (The mirror of
\* INT_MIN, 2^31, is at or beyond every length: the value there is 0.)
C6_EvenInLag ==
    (op = "liquid_filter_autocorr" /\ pc # "call") =>
        /\ pc = "returned"
        /\ ret = IF args.lag = IntMin THEN 0
                 ELSE AutocorrCall(h, args.h_len, -args.lag)

\* C7: for every int lag the call returns the sum over i = |lag|..L-1 of
\* h[i] * h[i - |lag|], which is 0 whenever |lag| >= L.
C7_ReturnsLagSum ==
    (op = "liquid_filter_autocorr" /\ pc # "call") =>
        /\ pc = "returned"
        /\ ret = RefAutocorr(h, args.h_len, args.lag)
        /\ (args.lag = IntMin \/ Abs(args.lag) >= args.h_len) => ret = 0

---------------------------------------------------------------------------
(* Claims about liquid_filter_isi (checked under SpecIsi).                 *)

\* r(i*k) for the i-th symbol-spaced lag, by the defining sum
SymbolAutocorr(i) == RefAutocorr(h, 2 * args.k * args.m + 1, i * args.k)

RECURSIVE SumSquares(_)
SumSquares(S) ==
    IF S = {} THEN 0
    ELSE LET i == CHOOSE x \in S : TRUE
         IN  SymbolAutocorr(i) * SymbolAutocorr(i) + SumSquares(S \ {i})

\* the largest |r(i*k)|, i in the non-empty set S
MaxAbsAutocorr(S) ==
    CHOOSE v \in {Abs(SymbolAutocorr(i)) : i \in S} :
        \A j \in S : Abs(SymbolAutocorr(j)) <= v

\* C4: a vector with r(0) = 0 is reported as a DegenerateInput failure and
\* nothing is stored to the mse and max outputs.
C4_DegenerateReported ==
    (op = "liquid_filter_isi" /\ pc # "call" /\ SymbolAutocorr(0) = 0) =>
        (pc = "DegenerateInput" /\ outw = {})

\* C8: for k >= 2, m >= 1 and r(0) # 0 the call stores
\* mse = (sum of e_i^2) / (2m) and max = the largest e_i, e_i = |r(i*k)/r(0)|,
\* i = 1..2m; both are 0 when every r(i*k) is 0.  Over the common
\* denominator: mse = (sum of r(i*k)^2) / (2m * r(0)^2),
\* max = (largest |r(i*k)|) / |r(0)|.
C8_MseAndMax ==
    (op = "liquid_filter_isi" /\ pc # "call" /\ args.k >= 2 /\ args.m >= 1
       /\ SymbolAutocorr(0) # 0) =>
        LET r0 == SymbolAutocorr(0)
            I == 1..(2 * args.m)
        IN  /\ pc = "returned"
            /\ outw = {"mse", "max"}
            /\ mse = R(SumSquares(I), 2 * args.m * r0 * r0)
            /\ max = R(MaxAbsAutocorr(I), Abs(r0))
            /\ (\A i \in I : SymbolAutocorr(i) = 0) =>
                   (mse = FromInt(0) /\ max = FromInt(0))

\* an analysis with k >= 2, m >= 2 has returned a peak above 0 and a mean
\* square below the square of the peak: the e_i are not all alike
C8_Witness ==
    /\ op = "liquid_filter_isi"
    /\ pc = "returned"
    /\ args.k >= 2
    /\ args.m >= 2
    /\ SymbolAutocorr(0) # 0
    /\ FLt(FromInt(0), mse)
    /\ FLt(mse, FMul(max, max))
    /\ SymbolAutocorr(1) < 0

\* C10: for k >= 1, m >= 0 every lag the call passes to
\* liquid_filter_autocorr is at most 2*k*m, below the length 2*k*m+1, every
\* index of h it reads lies in 0..2*k*m, and h is left as it was.
C10_ReadsInBounds ==
    [][(op = "liquid_filter_isi" /\ pc = "call" /\ pc' # "call" /\ args.k >= 1) =>
          /\ h' = h
          /\ \A l \in lags' : 0 <= l /\ l <= 2 * args.k * args.m
          /\ reads' \subseteq 0..(2 * args.k * args.m)
          /\ reads' \subseteq DOMAIN h]_vars

\* an analysis with k >= 2, m >= 2 has passed the lag 2*k*m and read both
\* ends of the vector
C10_Witness ==
    /\ op = "liquid_filter_isi"
    /\ pc = "returned"
    /\ args.k >= 2
    /\ args.m >= 2
    /\ 2 * args.k * args.m \in lags
    /\ {0, 2 * args.k * args.m} \subseteq reads

=============================================================================
